---- MODULE Spec2Model ----
(***************************************************************************)
(* Event ownership segmentation and conversation state persistence of the  *)
(* wandb_docs_agent backend: map_outputs_to_agents (utils.py), the SQLite  *)
(* state store (database.py), the pydantic context (models.py) and the     *)
(* turn handler run_agent_core (server.py).                                *)
(*                                                                         *)
(* Python values are modelled as follows.  None is the string "None"; a    *)
(* dict key that is absent is a field holding "None" (dict.get then gives  *)
(* None, as in the code).  An item of the runner's output list is a record *)
(* of the keys the code reads.  A list element is an object reference: in  *)
(* map_outputs_to_agents the buckets hold the very objects of `outputs`,   *)
(* so a bucket is modelled as a sequence of positions into `outputs`.      *)
(***************************************************************************)
EXTENDS Integers, Sequences, FiniteSets, TLC

(***************************************************************************)
(* Bounds.                                                                 *)
(***************************************************************************)
MaxLen == 4

(***************************************************************************)
(* Agent registry (main.py).                                               *)
(***************************************************************************)
AGENTS == {"triage_agent", "support_ticket_agent"}

None == "None"

\* Python truthiness of an optional string: None and "" are falsy.
Truthy(s) == s \notin {None, ""}

(***************************************************************************)
(* Items.  `kind` is the RunItem type of the runner (item.type in          *)
(* server.py); the other fields are the keys of item.to_input_item().      *)
(* `output` is the payload of a function_call_output: `form` says what     *)
(* Python value it is, `assistant` the value under the key "assistant".    *)
(*   dict         a dict object                                            *)
(*   json         a str holding a JSON object                              *)
(*   pylit        a str holding a Python dict literal that is not JSON     *)
(*   json_scalar  a str holding a JSON value that is not an object ("42")  *)
(*   text         a str that neither json.loads nor literal_eval accepts   *)
(*                (`text` holds it)                                        *)
(*   other        neither str nor dict (None, a number)                    *)
(*   absent       the item has no "output" key                             *)
(***************************************************************************)
NoOutput == [form |-> "absent", assistant |-> None, text |-> None]

Payload(form, assistant) == [form |-> form, assistant |-> assistant, text |-> None]

\* A plain string, which neither json.loads nor ast.literal_eval accepts.
TextPayload(text) == [form |-> "text", assistant |-> None, text |-> text]

Item(kind, type, role, name, call_id, id, content, output) ==
    [kind |-> kind, type |-> type, role |-> role, name |-> name,
     call_id |-> call_id, id |-> id, content |-> content, output |-> output]

UserInput(text) ==
    Item("user_input", None, "user", None, None, None, text, NoOutput)

MessageOutput(id, text) ==
    Item("message_output_item", "message", "assistant", None, None, id, text, NoOutput)

ToolCall(call_id, id, name) ==
    Item("tool_call_item", "function_call", None, name, call_id, id, None, NoOutput)

HandoffCall(call_id, id, target) ==
    Item("handoff_call_item", "function_call", None, "transfer_to_" \o target,
         call_id, id, None, NoOutput)

ToolOutput(call_id, output) ==
    Item("tool_call_output_item", "function_call_output", None, None, call_id,
         None, None, output)

HandoffOutput(call_id, output) ==
    Item("handoff_output_item", "function_call_output", None, None, call_id,
         None, None, output)

\* str.startswith("transfer_to_") on the names that occur.
TransferNames == {"transfer_to_" \o a : a \in AGENTS}

StartsWithTransferTo(name) == name \in TransferNames

(***************************************************************************)
(* Payload parsing: isinstance, json.loads, ast.literal_eval, dict.get.    *)
(* A parse result is [exc, isdict, assistant]; exc names the exception     *)
(* raised, "None" when the call returns.                                   *)
(***************************************************************************)
IsStr(output) == output.form \in {"json", "pylit", "json_scalar", "text"}

IsDict(output) == output.form = "dict"

Parsed(exc, isdict, assistant) == [exc |-> exc, isdict |-> isdict, assistant |-> assistant]

JsonLoads(output) ==
    CASE output.form = "json"        -> Parsed(None, TRUE, output.assistant)
      [] output.form = "json_scalar" -> Parsed(None, FALSE, None)
      [] OTHER                       -> Parsed("JSONDecodeError", FALSE, None)

LiteralEval(output) ==
    CASE output.form = "pylit"       -> Parsed(None, TRUE, output.assistant)
      [] output.form = "json"        -> Parsed(None, TRUE, output.assistant)
      [] output.form = "json_scalar" -> Parsed(None, FALSE, None)
      [] OTHER                       -> Parsed("ValueError", FALSE, None)

\* try json.loads, except json.JSONDecodeError: ast.literal_eval
ParseStr(output) ==
    IF JsonLoads(output).exc = "JSONDecodeError" THEN LiteralEval(output)
    ELSE JsonLoads(output)

\* parsed_output.get("assistant"): AttributeError unless parsed_output is a dict
GetAssistant(p) ==
    IF p.exc # None THEN p
    ELSE IF p.isdict THEN p
    ELSE Parsed("AttributeError", FALSE, None)

ExtractNextAgentJsonOnly(output) ==
    IF IsStr(output) THEN GetAssistant(JsonLoads(output))
    ELSE IF IsDict(output) THEN Parsed(None, TRUE, output.assistant)
    ELSE Parsed(None, FALSE, None)

\* utils.py lines 34-49: the value of next_agent, or the exception raised
ExtractNextAgent(output) ==
    IF IsStr(output) THEN GetAssistant(ParseStr(output))
    ELSE IF IsDict(output) THEN Parsed(None, TRUE, output.assistant)
    ELSE Parsed(None, FALSE, None)

CaughtNarrow(exc) == exc \in {"JSONDecodeError", "ValueError"}

\* `except Exception` at utils.py line 59 catches every exception above
CaughtByExceptException(exc) == exc \in {"JSONDecodeError", "ValueError", "AttributeError"}

(***************************************************************************)
(* map_outputs_to_agents.  SegState is the function's local state; SegStep *)
(* is one iteration of `for item in outputs` on the item at position k.    *)
(***************************************************************************)
SegState(segmented_history_, current_agent_name_, pending_, raised_) ==
    [segmented_history |-> segmented_history_,
     current_agent_name |-> current_agent_name_,
     pending_handoff_call_id |-> pending_,
     raised |-> raised_]

SegInit(initial_agent_name_) == SegState(<<>>, initial_agent_name_, None, FALSE)

SetDefaultNever(d, key) == d

\* if key not in d: d[key] = []
SetDefault(d, key) == IF key \in DOMAIN d THEN d ELSE d @@ (key :> <<>>)

AppendToReplacing(d, key, x) ==
    [a \in DOMAIN SetDefault(d, key) |-> IF a = key THEN <<x>> ELSE d[a]]

AppendTo(d, key, x) ==
    [a \in DOMAIN SetDefault(d, key) |->
        IF a = key THEN Append(SetDefault(d, key)[a], x) ELSE d[a]]

IsHandoffCallItem(item) ==
    /\ item.type = "function_call"
    /\ StartsWithTransferTo(IF item.name = None THEN "" ELSE item.name)

IsAnyOutput(item, pending) == item.type = "function_call_output"

IsOutputWhilePending(item, pending) ==
    item.type = "function_call_output" /\ Truthy(pending)

\* utils.py lines 27-31: the output that answers the pending hand-off call
IsMatchingOutput(item, pending) ==
    /\ item.type = "function_call_output"
    /\ Truthy(pending)
    /\ item.call_id = pending

SegStep(st, item, k) ==
    LET h1 == AppendTo(st.segmented_history, st.current_agent_name, k)
        r  == ExtractNextAgent(item.output)
    IN  IF IsHandoffCallItem(item)
        THEN \* pending_handoff_call_id = item.get("call_id")
             SegState(h1, st.current_agent_name, item.call_id, st.raised)
        ELSE IF IsMatchingOutput(item, st.pending_handoff_call_id)
        THEN IF r.exc # None
             THEN IF CaughtByExceptException(r.exc)
                  THEN \* except branch, then line 64 clears the pending call
                       SegState(h1, st.current_agent_name, None, st.raised)
                  ELSE SegState(h1, st.current_agent_name,
                                st.pending_handoff_call_id, TRUE)
             ELSE IF Truthy(r.assistant)
             THEN SegState(SetDefault(h1, r.assistant), r.assistant, None, st.raised)
             ELSE SegState(h1, st.current_agent_name, None, st.raised)
        ELSE SegState(h1, st.current_agent_name, st.pending_handoff_call_id, st.raised)

(***************************************************************************)
(* map_outputs_to_agents on a whole list: the loop, then the returned      *)
(* mapping with every reference replaced by the item it refers to.         *)
(***************************************************************************)
RECURSIVE SegFold(_, _, _)
SegFold(st, outs, k) ==
    IF k > Len(outs) \/ st.raised THEN st
    ELSE SegFold(SegStep(st, outs[k], k), outs, k + 1)

Deref(h, outs) == [a \in DOMAIN h |-> [n \in 1..Len(h[a]) |-> outs[h[a][n]]]]

MapOutputsToAgents(outs, initial_agent_name_) ==
    LET st == SegFold(SegInit(initial_agent_name_), outs, 1)
    IN  [raised |-> st.raised, segmented |-> Deref(st.segmented_history, outs)]

(***************************************************************************)
(* SupportTicketContext (models.py).  ticket_id stands for the flat ticket *)
(* fields, which create_ticket sets together.                              *)
(***************************************************************************)
Context(ticket_id_, chat_history_, agent_last_response_ids_, active_agent_name_) ==
    [ticket_id |-> ticket_id_, chat_history |-> chat_history_,
     agent_last_response_ids |-> agent_last_response_ids_,
     active_agent_name |-> active_agent_name_]

DefaultContext == Context(None, <<>>, <<>>, None)

(***************************************************************************)
(* The state store (database.py).  A row is                                *)
(* (context_json, agent_name, last_response_id); context_json is the JSON  *)
(* text of the context, modelled as the JSON value it encodes: Python None *)
(* is written as JSON null ("null") and read back as None.                 *)
(***************************************************************************)
ToJson(v) == IF v = None THEN "null" ELSE v

FromJson(v) == IF v = "null" THEN None ELSE v

\* json.dumps(context.model_dump())
JsonDumpsContext(ctx) ==
    [ticket_id |-> ToJson(ctx.ticket_id),
     chat_history |-> ctx.chat_history,
     agent_last_response_ids |->
        [a \in DOMAIN ctx.agent_last_response_ids |-> ToJson(ctx.agent_last_response_ids[a])],
     active_agent_name |-> ToJson(ctx.active_agent_name)]

\* json.loads(row[0])
JsonLoadsContext(j) ==
    Context(FromJson(j.ticket_id), j.chat_history,
            [a \in DOMAIN j.agent_last_response_ids |-> FromJson(j.agent_last_response_ids[a])],
            FromJson(j.active_agent_name))

\* SupportTicketContext(**context_dict): agent_last_response_ids is Dict[str, str],
\* so a None value is a validation error; the other fields accept what is stored.
Validates(d) == \A a \in DOMAIN d.agent_last_response_ids : d.agent_last_response_ids[a] # None

Row(context_json_, agent_name_, last_response_id_) ==
    [context_json |-> context_json_, agent_name |-> agent_name_,
     last_response_id |-> last_response_id_]

Loaded(exc, context, agent_name, last_response_id) ==
    [exc |-> exc, context |-> context, agent_name |-> agent_name,
     last_response_id |-> last_response_id]

LoadStateFromDbNotFoundRaises(store, conversation_id, fault) ==
    IF fault \/ conversation_id \notin DOMAIN store
    THEN Loaded("sqlite3.Error", DefaultContext, "", None)
    ELSE Loaded(None, JsonLoadsContext(store[conversation_id].context_json),
                store[conversation_id].agent_name, store[conversation_id].last_response_id)

\* load_state_from_db; `fault` says that the storage engine raises sqlite3.Error
LoadStateFromDb(store, conversation_id, fault) ==
    IF fault THEN Loaded("sqlite3.Error", DefaultContext, "", None)
    ELSE IF conversation_id \in DOMAIN store
    THEN LET d == JsonLoadsContext(store[conversation_id].context_json)
         IN  IF Validates(d)
             THEN Loaded(None, d, store[conversation_id].agent_name,
                         store[conversation_id].last_response_id)
             ELSE Loaded("ValidationError", DefaultContext, "", None)
    ELSE Loaded(None, DefaultContext, "", None)

SaveStateToDbAllRows(store, conversation_id, context, agent_name, last_response_id) ==
    [c \in DOMAIN store \cup {conversation_id} |->
        Row(JsonDumpsContext(context), agent_name, last_response_id)]

SaveStateToDbInsertOrIgnore(store, conversation_id, context, agent_name, last_response_id) ==
    [c \in DOMAIN store \cup {conversation_id} |->
        IF c \in DOMAIN store THEN store[c]
        ELSE Row(JsonDumpsContext(context), agent_name, last_response_id)]

SaveStateToDbKeepsColumns(store, conversation_id, context, agent_name, last_response_id) ==
    [c \in DOMAIN store \cup {conversation_id} |->
        IF c # conversation_id THEN store[c]
        ELSE IF c \in DOMAIN store
        THEN Row(JsonDumpsContext(context), store[c].agent_name, store[c].last_response_id)
        ELSE Row(JsonDumpsContext(context), agent_name, last_response_id)]

\* save_state_to_db: INSERT OR REPLACE of the whole row
SaveStateToDb(store, conversation_id, context, agent_name, last_response_id) ==
    [c \in DOMAIN store \cup {conversation_id} |->
        IF c = conversation_id
        THEN Row(JsonDumpsContext(context), agent_name, last_response_id)
        ELSE store[c]]

(***************************************************************************)
(* The merge of a turn's segmented output into the context                 *)
(* (run_agent_core, server.py lines 178-199).                              *)
(***************************************************************************)
Range(f) == {f[i] : i \in DOMAIN f}

NoExistingIds(history) == {}

\* existing_ids: the ids of the messages stored for the agent
ExistingIds(history) == {history[i].id : i \in DOMAIN history} \ {None}

NeverStored(output, history) == FALSE

StoredLast(output, history) == history # <<>> /\ history[Len(history)] = output

\* line 196: `output not in agent_context.chat_history[agent]`, negated
AlreadyStored(output, history) == output \in Range(history)

\* for output in outputs: append when its id is new, or, without id, when no
\* equal entry is stored
RECURSIVE MergeOutputs(_, _, _)
MergeOutputs(history, existing_ids, outs) ==
    IF outs = <<>> THEN history
    ELSE LET output == Head(outs)
         IN  IF output.id # None
             THEN IF output.id \notin existing_ids
                  THEN MergeOutputs(Append(history, output),
                                    existing_ids \cup {output.id}, Tail(outs))
                  ELSE MergeOutputs(history, existing_ids, Tail(outs))
             ELSE IF ~AlreadyStored(output, history)
                  THEN MergeOutputs(Append(history, output), existing_ids, Tail(outs))
                  ELSE MergeOutputs(history, existing_ids, Tail(outs))

HistoryDropped(chat_history, agent) == <<>>

HistoryOf(chat_history, agent) ==
    IF agent \in DOMAIN chat_history THEN chat_history[agent] ELSE <<>>

MergeHistories(chat_history, segmented) ==
    [agent \in DOMAIN chat_history \cup DOMAIN segmented |->
        IF agent \in DOMAIN segmented
        THEN MergeOutputs(HistoryOf(chat_history, agent),
                          ExistingIds(HistoryOf(chat_history, agent)), segmented[agent])
        ELSE chat_history[agent]]

SetKeyOnly(d, key, value) == [a \in {key} |-> value]

SetKey(d, key, value) == [a \in DOMAIN d \cup {key} |-> IF a = key THEN value ELSE d[a]]

\* lines 178-199: the per-agent merge, then the active agent and its token
TurnMerge(ctx, segmented, last_active_agent_name, last_response_id) ==
    Context(ctx.ticket_id,
            MergeHistories(ctx.chat_history, segmented),
            SetKey(ctx.agent_last_response_ids, last_active_agent_name, last_response_id),
            last_active_agent_name)

(***************************************************************************)
(* run_agent_core (server.py).  A turn record holds the handler's locals.  *)
(*   pc: "idle"      no request                                            *)
(*       "running"   awaiting Runner.run (line 101)                        *)
(*       "answered"  returned the answer dict (line 208)                   *)
(*       "error"     returned {"error": ...} (line 221): the endpoint's 500*)
(*       "raised"    an exception left run_agent_core: a 500 as well       *)
(*       "rejected"  the endpoint raised HTTPException(400) before the     *)
(*                   call of run_agent_core                                *)
(*   entry: the endpoint that received the request, None for a direct call *)
(*   of run_agent_core.                                                    *)
(*   phases: the parts of run_agent_core the turn has entered, in order:   *)
(*       "LOAD"     load_state_from_db and the agent lookup (lines 75-83)  *)
(*       "DISPATCH" Runner.run and the logging of its items (84-157)       *)
(*       "EXTRACT"  final_messages_for_client (159-165)                    *)
(*       "SEGMENT"  map_outputs_to_agents (174-177)                        *)
(*       "MERGE"    the per-agent merge, active agent, token (178-199)     *)
(*       "PERSIST"  save_state_to_db (201-206)                             *)
(*       "RESPOND"  the return of the answer dict (208-214)                *)
(*       "FAIL"     an exception ended the turn                            *)
(*   loaded ("absent", "row", "fault"), loaded_agent_name, load_exc,       *)
(*   prior_context and save_failed record what load_state_from_db and      *)
(*   save_state_to_db did in this turn.                                    *)
(***************************************************************************)
IdleTurn ==
    [pc |-> "idle", entry |-> None, conversation_id |-> None, user_message |-> None,
     loaded |-> None, loaded_agent_name |-> None, load_exc |-> None,
     prior_context |-> DefaultContext,
     agent_context |-> DefaultContext, current_agent_name |-> None,
     last_response_id |-> None, input_with_history |-> <<>>,
     previous_response_id |-> None, phases |-> <<>>,
     new_items |-> <<>>, current_turn_history |-> <<>>, segmented |-> <<>>,
     last_active_agent_name |-> None, answer |-> None, error |-> None,
     save_failed |-> FALSE]

Healed(current_agent_name_, last_response_id_, agent_context_) ==
    [current_agent_name |-> current_agent_name_, last_response_id |-> last_response_id_,
     agent_context |-> agent_context_]

SelfHealKeepsContext(ld) ==
    IF ld.agent_name \in AGENTS
    THEN Healed(ld.agent_name, ld.last_response_id, ld.context)
    ELSE Healed("triage_agent", None, ld.context)

\* lines 77-83: an agent name that is no key of AGENTS resets the turn to triage
SelfHeal(ld) ==
    IF ld.agent_name \in AGENTS
    THEN Healed(ld.agent_name, ld.last_response_id, ld.context)
    ELSE Healed("triage_agent", None, DefaultContext)

InputMessageOnly(agent_context, current_agent_name_, current_input) == current_input

\* lines 84-88
InputWithHistory(agent_context, current_agent_name_, current_input) ==
    IF current_agent_name_ \in DOMAIN agent_context.chat_history
    THEN agent_context.chat_history[current_agent_name_] \o current_input
    ELSE current_input

\* lines 101-106: the previous_response_id argument of Runner.run; the line
\* that passes last_response_id is commented out, so the run gets none
\* (previous_response_id in the turn record)
PreviousResponseId(last_response_id) == None

\* lines 72-106, up to the await of Runner.run
LoadPhase(store, conversation_id, user_message, fault) ==
    LET ld == LoadStateFromDb(store, conversation_id, fault)
        h  == SelfHeal(ld)
        found == IF fault THEN "fault"
                 ELSE IF conversation_id \in DOMAIN store THEN "row" ELSE "absent"
        base == [IdleTurn EXCEPT !.conversation_id = conversation_id,
                                 !.user_message = user_message,
                                 !.loaded = found,
                                 !.loaded_agent_name =
                                     IF found = "row" THEN store[conversation_id].agent_name
                                     ELSE None]
    IN  IF ld.exc # None
        THEN [base EXCEPT !.pc = "raised", !.error = ld.exc, !.load_exc = ld.exc,
                          !.phases = <<"LOAD", "FAIL">>]
        ELSE [base EXCEPT !.pc = "running",
                          !.phases = <<"LOAD", "DISPATCH">>,
                          !.prior_context = h.agent_context,
                          !.agent_context = h.agent_context,
                          !.current_agent_name = h.current_agent_name,
                          !.last_response_id = h.last_response_id,
                          !.previous_response_id = PreviousResponseId(h.last_response_id),
                          !.input_with_history =
                              InputWithHistory(h.agent_context, h.current_agent_name,
                                               <<UserInput(user_message)>>)]

\* subscripting the parsed payload with ["assistant"]: TypeError unless it is
\* a dict, KeyError when the key is missing
SubscriptAssistant(p) ==
    IF p.exc # None THEN p.exc
    ELSE IF ~p.isdict THEN "TypeError"
    ELSE IF p.assistant = None THEN "KeyError"
    ELSE None

\* lines 139-153: logging a handoff_output_item reads output["assistant"]; the
\* exception it raises, None when it passes
HandoffLogException(output) ==
    IF output.form = "absent" THEN "KeyError"
    ELSE IF IsDict(output) THEN SubscriptAssistant(Parsed(None, TRUE, output.assistant))
    ELSE IF IsStr(output) THEN SubscriptAssistant(ParseStr(output))
    ELSE "ValueError"

HandoffLogRaises(output) == HandoffLogException(output) # None

\* lines 121-157: the exception of the first item on which the logging loop
\* raises, None when the loop passes
RECURSIVE LogException(_)
LogException(new_items) ==
    IF new_items = <<>> THEN None
    ELSE LET item == Head(new_items)
             exc == IF item.kind = "handoff_output_item"
                    THEN HandoffLogException(item.output)
                    ELSE IF item.kind = "tool_call_output_item" /\ ~IsStr(item.output)
                    THEN "TypeError"
                    ELSE None
         IN  IF exc # None THEN exc ELSE LogException(Tail(new_items))

LogRaises(new_items) == LogException(new_items) # None

NoTag(name) == ""

AgentTag(name) == "<!<" \o name \o ">!>"

FinalMessageGuessed(new_items, last_active_agent_name) ==
    LET last_output == new_items[Len(new_items)]
    IN  IF last_output.kind = "message_output_item"
        THEN last_output.content \o AgentTag(last_active_agent_name)
        ELSE IF last_output.kind = "tool_call_output_item"
        THEN last_output.output.text \o AgentTag(last_active_agent_name)
        ELSE AgentTag(last_active_agent_name)

\* lines 159-165: the answer, or None when the last item is of another type
FinalMessage(new_items, last_active_agent_name) ==
    LET last_output == new_items[Len(new_items)]
    IN  IF last_output.kind = "message_output_item"
        THEN last_output.content \o AgentTag(last_active_agent_name)
        ELSE IF last_output.kind = "tool_call_output_item"
        THEN last_output.output.text \o AgentTag(last_active_agent_name)
        ELSE None

\* create_ticket sets the ticket fields of the context while the runner runs
TicketAfterRun(ticket_id, new_items) ==
    IF \E i \in DOMAIN new_items :
          new_items[i].kind = "tool_call_output_item" /\ new_items[i].call_id = "call_t"
    THEN "TICKET-1" ELSE ticket_id

SpecOrder == <<"SEGMENT", "MERGE", "PERSIST", "EXTRACT", "RESPOND">>

\* The order of the parts of run_agent_core after the logging loop.
CompletionOrder == <<"EXTRACT", "SEGMENT", "MERGE", "PERSIST", "RESPOND">>

\* The parts entered by a turn that gets as far as `part`.
PhasesUpTo(part) ==
    LET n == CHOOSE i \in DOMAIN CompletionOrder : CompletionOrder[i] = part
    IN  SubSeq(CompletionOrder, 1, n)

\* lines 108-214: from the runner's result to the returned dict.  The result is
\* the turn record and the store.
CompletePhase(store, tr, res, save_fault) ==
    LET current_input == <<UserInput(tr.user_message)>>
        current_turn_history == current_input \o res.new_items
        ctx0 == [tr.agent_context EXCEPT
                    !.ticket_id = TicketAfterRun(tr.agent_context.ticket_id, res.new_items)]
        got == [tr EXCEPT !.new_items = res.new_items,
                          !.current_turn_history = current_turn_history,
                          !.last_active_agent_name = res.last_agent,
                          !.last_response_id = res.last_response_id,
                          !.agent_context = ctx0]
        m   == MapOutputsToAgents(current_turn_history, tr.current_agent_name)
        merged == TurnMerge(ctx0, m.segmented, res.last_agent, res.last_response_id)
        failed(tr1, exc, entered) ==
            [turn |-> [tr1 EXCEPT !.pc = "error", !.error = exc,
                                  !.phases = (tr.phases \o entered) \o <<"FAIL">>],
             store |-> store]
    IN  IF LogRaises(res.new_items) THEN failed(got, LogException(res.new_items), <<>>)
        ELSE IF res.new_items = <<>> THEN failed(got, "IndexError", PhasesUpTo("EXTRACT"))
        ELSE IF FinalMessage(res.new_items, res.last_agent) = None
        THEN failed(got, "ValueError", PhasesUpTo("EXTRACT"))
        ELSE IF m.raised THEN failed(got, "Exception", PhasesUpTo("SEGMENT"))
        ELSE IF save_fault
        THEN failed([got EXCEPT !.answer = FinalMessage(res.new_items, res.last_agent),
                                !.segmented = m.segmented,
                                !.agent_context = merged,
                                !.save_failed = TRUE], "sqlite3.Error",
                    PhasesUpTo("PERSIST"))
        ELSE [turn |-> [got EXCEPT !.pc = "answered",
                                   !.phases = tr.phases \o PhasesUpTo("RESPOND"),
                                   !.answer = FinalMessage(res.new_items, res.last_agent),
                                   !.segmented = m.segmented,
                                   !.agent_context = merged],
              store |-> SaveStateToDb(store, tr.conversation_id, merged, res.last_agent,
                                      res.last_response_id)]

(***************************************************************************)
(* State.                                                                  *)
(*   outputs, initial_agent_name, seg : one call of map_outputs_to_agents: *)
(*       its arguments and its local state after the items read so far.    *)
(*   db     : the conversation_state table, conversation_id -> row         *)
(*   turn   : the turn each request task is handling                       *)
(*   nturns : the number of requests received                              *)
(*   legacy : the request the client-held-context endpoint (src/server.py) *)
(*            is handling                                                  *)
(***************************************************************************)
VARIABLES outputs, initial_agent_name, seg, db, turn, nturns, legacy

(***************************************************************************)
(* The client-held-context endpoint /docs-agent of src/server.py.  The     *)
(* client sends the context with each request and gets it back in the      *)
(* response; nothing is stored.  An entry of chat_history is a str or a    *)
(* dict {role, content}; `form` says which.                                *)
(*   pc: "idle", "running" (awaiting Runner.run, line 52), "responded"     *)
(*       (the JSONResponse of line 57), "raised" (an exception left the    *)
(*       handler: a 500)                                                   *)
(***************************************************************************)
StrEntry(text) == [form |-> "str", role |-> None, content |-> text]

DictEntry(role, content) == [form |-> "dict", role |-> role, content |-> content]

\* models.py line 9: chat_history: list[str]
LegacyValidates(chat_history) ==
    \A i \in DOMAIN chat_history : chat_history[i].form = "str"

LegacyIdle ==
    [pc |-> "idle", message |-> None, request_history |-> <<>>, chat_history |-> <<>>,
     input_items |-> <<>>, response_history |-> <<>>, error |-> None]

\* lines 33-52: up to the await of Runner.run
LegacyLoadPhase(message, request_history) ==
    IF LegacyValidates(request_history)
    THEN [LegacyIdle EXCEPT !.pc = "running", !.message = message,
                            !.request_history = request_history,
                            !.chat_history = request_history,
                            !.input_items = <<DictEntry("user", message)>>]
    ELSE [LegacyIdle EXCEPT !.pc = "raised", !.message = message,
                            !.request_history = request_history,
                            !.error = "ValidationError"]

\* lines 52-64: the response carries context.model_dump(); the handler does
\* not touch context.chat_history, and create_ticket, when the run calls it,
\* replaces it by the list the model passed (tool_history; None: not called).
LegacyCompletePhase(rq, tool_history) ==
    LET after == IF tool_history = None THEN rq.chat_history ELSE tool_history
    IN  [rq EXCEPT !.pc = "responded", !.chat_history = after,
                   !.response_history = after]

segvars == <<outputs, initial_agent_name, seg>>

corevars == <<db, turn, nturns>>

vars == <<outputs, initial_agent_name, seg, db, turn, nturns, legacy>>

MaxTurns == 2

Tasks == {"task_1"}

ConvIds == {"conv_1", "conv_2"}

UserMessages == {"hi", "help"}

Tokens == {None, "resp_1"}

\* The items of the runs.
Msg1 == MessageOutput("msg_1", "answer one")
Msg2 == MessageOutput("msg_2", "answer two")
TicketCall == ToolCall("call_t", "fc_t", "create_ticket")
TicketOut == ToolOutput("call_t", TextPayload("ticket TICKET-1 created"))
HCall == HandoffCall("call_1", "fc_1", "support_ticket_agent")
HOut == HandoffOutput("call_1", Payload("json", "support_ticket_agent"))
HBad == HandoffOutput("call_1", TextPayload("not an object"))
HNoTarget == HandoffOutput("call_1", Payload("json", None))
HOther == HandoffOutput("call_1", Payload("other", None))

\* result.new_items of the runs: each shape the turn handler tells apart.
RunOutputs ==
    { <<>>, <<Msg1>>, <<Msg1, Msg1>>, <<Msg2>>, <<TicketCall, TicketOut>>,
      <<HCall, HOut, Msg2>>, <<HCall>>, <<HCall, HBad, Msg1>>,
      <<HCall, HOut>>, <<TicketCall>>,
      <<HCall, HNoTarget, Msg1>>, <<HCall, HOther, Msg1>> }

RunResults ==
    [new_items : RunOutputs, last_agent : AGENTS, last_response_id : Tokens]

\* A row left in the database file by an earlier deployment whose registry
\* held an agent that AGENTS no longer has.
LegacyRow ==
    Row(JsonDumpsContext(Context(None,
            "legacy_agent" :> <<MessageOutput("msg_0", "old answer")>>,
            "legacy_agent" :> "resp_0", "legacy_agent")),
        "legacy_agent", "resp_0")

\* A request with a conversation_id arrives: lines 72-106.
BeginTurn(t, conversation_id, user_message, fault) ==
    /\ turn[t].pc # "running"
    /\ nturns < MaxTurns
    /\ nturns' = nturns + 1
    /\ turn' = [turn EXCEPT ![t] = LoadPhase(db, conversation_id, user_message, fault)]
    /\ UNCHANGED db

\* A request without conversation_id: uuid4 gives an id no row has.
BeginTurnNewId(t, user_message, fault) ==
    /\ turn[t].pc # "running"
    /\ nturns < MaxTurns
    /\ \E conversation_id \in ConvIds \ DOMAIN db :
          /\ \A u \in DOMAIN turn : turn[u].conversation_id # conversation_id
          /\ turn' = [turn EXCEPT ![t] = LoadPhase(db, conversation_id, user_message, fault)]
    /\ nturns' = nturns + 1
    /\ UNCHANGED db

\* Runner.run returns: lines 108-214.
CompleteTurn(t, res, save_fault) ==
    /\ turn[t].pc = "running"
    /\ turn' = [turn EXCEPT ![t] = CompletePhase(db, turn[t], res, save_fault).turn]
    /\ db' = CompletePhase(db, turn[t], res, save_fault).store
    /\ UNCHANGED nturns

\* The exceptions Runner.run can end with: a failure of the runner, a timeout
\* (both are Exceptions) and the cancellation of the request task.
RunnerExceptions == {"Exception", "TimeoutError", "CancelledError"}

FailPhaseSavesPartial(store, tr, exc) ==
    [turn |-> [tr EXCEPT !.pc = IF exc = "CancelledError" THEN "raised" ELSE "error",
                         !.error = exc, !.phases = Append(tr.phases, "FAIL")],
     store |-> SaveStateToDb(store, tr.conversation_id, tr.agent_context,
                             tr.current_agent_name, tr.last_response_id)]

\* Runner.run raises: an Exception is caught at line 219 and becomes the error
\* dict, a cancellation (CancelledError, a BaseException) leaves the handler.
\* Neither path reaches the merge or save_state_to_db.
FailPhase(store, tr, exc) ==
    [turn |-> [tr EXCEPT !.pc = IF exc = "CancelledError" THEN "raised" ELSE "error",
                         !.error = exc, !.phases = Append(tr.phases, "FAIL")],
     store |-> store]

RunnerFails(t, exc) ==
    /\ turn[t].pc = "running"
    /\ turn' = [turn EXCEPT ![t] = FailPhase(db, turn[t], exc).turn]
    /\ db' = FailPhase(db, turn[t], exc).store
    /\ UNCHANGED nturns

Init ==
    /\ outputs = <<>>
    /\ initial_agent_name = None
    /\ seg = SegState(<<>>, None, None, FALSE)
    /\ db \in {<<>>, "conv_2" :> LegacyRow}
    /\ turn = [t \in Tasks |-> IdleTurn]
    /\ nturns = 0
    /\ legacy = LegacyIdle

Next ==
    \/ \E t \in Tasks, c \in ConvIds, m \in UserMessages, fault \in BOOLEAN :
          BeginTurn(t, c, m, fault) /\ UNCHANGED <<segvars, legacy>>
    \/ \E t \in Tasks, m \in UserMessages, fault \in BOOLEAN :
          BeginTurnNewId(t, m, fault) /\ UNCHANGED <<segvars, legacy>>
    \/ \E t \in Tasks, res \in RunResults, save_fault \in BOOLEAN :
          CompleteTurn(t, res, save_fault) /\ UNCHANGED <<segvars, legacy>>
    \/ \E t \in Tasks, exc \in RunnerExceptions :
          RunnerFails(t, exc) /\ UNCHANGED <<segvars, legacy>>

Spec == Init /\ [][Next]_vars

(***************************************************************************)
(* Concurrent requests.  run_agent_core is a coroutine: its code up to the *)
(* await of Runner.run (line 101) and its code after it run without        *)
(* interruption, and the turns of other request tasks run while it awaits. *)
(* Each task works on the context object its own load built.               *)
(***************************************************************************)
ConcTasks == {"task_1", "task_2"}

ConcTokens == {"resp_1", "resp_2"}

ConcOutputs == { <<Msg1>>, <<Msg2>>, <<HCall, HOut, Msg2>> }

ConcResults ==
    [new_items : ConcOutputs, last_agent : AGENTS, last_response_id : ConcTokens]

ConcInit ==
    /\ outputs = <<>>
    /\ initial_agent_name = None
    /\ seg = SegState(<<>>, None, None, FALSE)
    /\ db = <<>>
    /\ turn = [t \in ConcTasks |-> IdleTurn]
    /\ nturns = 0
    /\ legacy = LegacyIdle

ConcNext ==
    \/ \E t \in ConcTasks, c \in ConvIds, m \in UserMessages :
          BeginTurn(t, c, m, FALSE) /\ UNCHANGED <<segvars, legacy>>
    \/ \E t \in ConcTasks, res \in ConcResults :
          CompleteTurn(t, res, FALSE) /\ UNCHANGED <<segvars, legacy>>
    \/ \E t \in ConcTasks :
          RunnerFails(t, "CancelledError") /\ UNCHANGED <<segvars, legacy>>

ConcSpec == ConcInit /\ [][ConcNext]_vars

(***************************************************************************)
(* Requests to the client-held-context endpoint.                           *)
(***************************************************************************)
MaxHistory == 2

LegacyEntries ==
    { StrEntry("user: Hello there!"), StrEntry("triage_agent: Hi!"),
      DictEntry("user", "Hello there!"), DictEntry("assistant", "Hi!") }

RECURSIVE SeqsUpTo(_, _)
SeqsUpTo(S, n) ==
    IF n = 0 THEN {<<>>}
    ELSE SeqsUpTo(S, n - 1) \cup
         {Append(h, e) : h \in {x \in SeqsUpTo(S, n - 1) : Len(x) = n - 1}, e \in S}

LegacyHistories == SeqsUpTo(LegacyEntries, MaxHistory)

\* The chat_history argument of a create_ticket call, None without a call.
LegacyToolHistories == {None, <<>>, <<StrEntry("user: Hello there!")>>}

LegacyRequest(message, request_history) ==
    /\ legacy.pc # "running"
    /\ legacy' = LegacyLoadPhase(message, request_history)
    /\ UNCHANGED <<segvars, corevars>>

LegacyComplete(tool_history) ==
    /\ legacy.pc = "running"
    /\ legacy' = LegacyCompletePhase(legacy, tool_history)
    /\ UNCHANGED <<segvars, corevars>>

LegacyRunnerFails ==
    /\ legacy.pc = "running"
    /\ legacy' = [legacy EXCEPT !.pc = "raised", !.error = "Exception"]
    /\ UNCHANGED <<segvars, corevars>>

LegacyNext ==
    \/ \E message \in UserMessages, request_history \in LegacyHistories :
          LegacyRequest(message, request_history)
    \/ \E tool_history \in LegacyToolHistories : LegacyComplete(tool_history)
    \/ LegacyRunnerFails

LegacySpec == Init /\ [][LegacyNext]_vars

(***************************************************************************)
(* The endpoints in front of run_agent_core (server.py lines 226-298).     *)
(* A field that the request body lacks is None.                            *)
(***************************************************************************)
EntryPoints == {"/docs-agent", "/v1/completions", "/v1/chat/completions"}

\* The user message of a request body: absent, empty, or a text.
EntryMessages == {None, "", "hi"}

\* What the endpoint does with the message before it calls run_agent_core:
\* "admit", or the exception it ends with.
\* /docs-agent, lines 229-238: `if not user_message` raises HTTPException(400)
RunAgentEndpoint(message) == IF Truthy(message) THEN "admit" ELSE "HTTP 400"

\* /v1/completions, lines 254-261: OpenAICompletionRequest(**body) needs
\* prompt: str; any str, the empty one included, is passed on.
OpenaiCompletionsEndpoint(prompt) == IF prompt = None THEN "ValidationError" ELSE "admit"

\* /v1/chat/completions, lines 288-296: the content of the last user message,
\* None without one; `if not user_msg` raises HTTPException(400)
OpenaiChatCompletionsEndpoint(user_msg) == IF Truthy(user_msg) THEN "admit" ELSE "HTTP 400"

Admission(entry, message) ==
    IF entry = "/docs-agent" THEN RunAgentEndpoint(message)
    ELSE IF entry = "/v1/completions" THEN OpenaiCompletionsEndpoint(message)
    ELSE OpenaiChatCompletionsEndpoint(message)

\* The turn record after the endpoint's code up to its await of run_agent_core
\* and run_agent_core's code up to its await of Runner.run.
EntryPhase(store, entry, message, conversation_id, fault) ==
    IF Admission(entry, message) = "admit"
    THEN [LoadPhase(store, conversation_id, message, fault) EXCEPT !.entry = entry]
    ELSE [IdleTurn EXCEPT !.entry = entry,
                          !.user_message = message,
                          !.pc = IF Admission(entry, message) = "HTTP 400"
                                 THEN "rejected" ELSE "raised",
                          !.error = Admission(entry, message)]

\* A request arrives at an endpoint.
Request(t, entry, message, conversation_id, fault) ==
    /\ turn[t].pc # "running"
    /\ nturns < MaxTurns
    /\ nturns' = nturns + 1
    /\ turn' = [turn EXCEPT ![t] = EntryPhase(db, entry, message, conversation_id, fault)]
    /\ UNCHANGED db

EntryNext ==
    \/ \E t \in Tasks, entry \in EntryPoints, message \in EntryMessages,
          c \in ConvIds, fault \in BOOLEAN :
          Request(t, entry, message, c, fault) /\ UNCHANGED <<segvars, legacy>>
    \/ \E t \in Tasks, res \in RunResults, save_fault \in BOOLEAN :
          CompleteTurn(t, res, save_fault) /\ UNCHANGED <<segvars, legacy>>
    \/ \E t \in Tasks, exc \in RunnerExceptions :
          RunnerFails(t, exc) /\ UNCHANGED <<segvars, legacy>>

EntrySpec == Init /\ [][EntryNext]_vars

\* The items a call of map_outputs_to_agents is fed with.
SegPayloads ==
    { Payload("json", "support_ticket_agent"), Payload("pylit", "triage_agent"),
      Payload("dict", "support_ticket_agent"), Payload("text", None),
      Payload("json_scalar", None), Payload("dict", None), Payload("json", ""),
      Payload("other", None) }

SegItems ==
    { MessageOutput("msg_1", "hello"),
      HandoffCall("call_1", "fc_1", "support_ticket_agent"),
      HandoffCall("call_2", "fc_2", "triage_agent"),
      ToolCall("call_1", "fc_3", "wandbot_tool") }
    \cup { HandoffOutput("call_1", p) : p \in SegPayloads }
    \cup { HandoffOutput("call_2", Payload("json", "triage_agent")),
           HandoffOutput("call_2", Payload("dict", "support_ticket_agent")) }

SegIdle == SegState(<<>>, None, None, FALSE)

\* map_outputs_to_agents(outputs, initial_agent_name) is entered.
SegCall(a) ==
    /\ initial_agent_name = None
    /\ initial_agent_name' = a
    /\ outputs' = <<>>
    /\ seg' = SegInit(a)
    /\ UNCHANGED <<corevars, legacy>>

\* One iteration of the loop, on the next item of the list.
SegIterate(item) ==
    /\ initial_agent_name # None
    /\ ~seg.raised
    /\ Len(outputs) < MaxLen
    /\ outputs' = Append(outputs, item)
    /\ seg' = SegStep(seg, item, Len(outputs) + 1)
    /\ UNCHANGED <<initial_agent_name, corevars, legacy>>

SegSpecInit ==
    /\ outputs = <<>>
    /\ initial_agent_name = None
    /\ seg = SegIdle
    /\ db = <<>>
    /\ turn = [t \in Tasks |-> IdleTurn]
    /\ nturns = 0
    /\ legacy = LegacyIdle

SegSpecNext ==
    \/ \E a \in AGENTS : SegCall(a)
    \/ \E item \in SegItems : SegIterate(item)

SegSpec == SegSpecInit /\ [][SegSpecNext]_vars

(***************************************************************************)
(* Properties of map_outputs_to_agents, checked under SegSpec.             *)
(***************************************************************************)
N == Len(outputs)

IsOutputItem(item) == item.type = "function_call_output"

\* The payload names a target agent: an object, or a string that encodes one,
\* whose "assistant" field is a non-empty agent identifier.
Resolves(p) == p.form \in {"dict", "json", "pylit"} /\ Truthy(p.assistant)

Target(j) == outputs[j].output.assistant

\* Item k of `outputs` is held by the bucket of agent a, and by no other bucket.
InBucket(k, a) ==
    /\ a \in DOMAIN seg.segmented_history
    /\ \E n \in 1..Len(seg.segmented_history[a]) : seg.segmented_history[a][n] = k

OnlyIn(k, a) ==
    /\ InBucket(k, a)
    /\ \A b \in DOMAIN seg.segmented_history : InBucket(k, b) => b = a

SameBucket(k, m) == \E a \in DOMAIN seg.segmented_history : OnlyIn(k, a) /\ OnlyIn(m, a)

\* The current agent once item j has been handled.
OwnerAfter(j, a) == IF j < N THEN OnlyIn(j + 1, a) ELSE seg.current_agent_name = a

\* A hand-off call at i and a function-call output at j > i that carry the same call_id.
SameCallId(i, j) ==
    /\ i < j
    /\ IsHandoffCallItem(outputs[i])
    /\ IsOutputItem(outputs[j])
    /\ outputs[i].call_id = outputs[j].call_id

\* ... and the call at i is the pending one when j arrives: the call_id is not
\* empty, and no other hand-off call and no other output carrying that call_id
\* lies between them.
PendingPair(i, j) ==
    /\ SameCallId(i, j)
    /\ Truthy(outputs[i].call_id)
    /\ \A m \in (i + 1)..(j - 1) :
          /\ ~IsHandoffCallItem(outputs[m])
          /\ ~(IsOutputItem(outputs[m]) /\ outputs[m].call_id = outputs[i].call_id)

OrigPair(i, j) == SameCallId(i, j) /\ Resolves(outputs[j].output)

EffPair(i, j) == PendingPair(i, j) /\ Resolves(outputs[j].output)

OrigResults(lo, hi) == {j \in lo..hi : \E i \in 1..N : OrigPair(i, j)}

EffResults(lo, hi) == {j \in lo..hi : \E i \in 1..N : EffPair(i, j)}

Latest(S) == CHOOSE j \in S : \A m \in S : m <= j

\* The agent that is current before item k, as the claim describes it: the
\* target of the latest resolved hand-off before k, else the initial agent.
OrigOwnerBefore(k) ==
    IF OrigResults(1, k - 1) = {} THEN initial_agent_name
    ELSE Target(Latest(OrigResults(1, k - 1)))

EffOwnerBefore(k) ==
    IF EffResults(1, k - 1) = {} THEN initial_agent_name
    ELSE Target(Latest(EffResults(1, k - 1)))

\* Every call_id is carried by at most one hand-off call and one output (the
\* data model's invariant on a turn's events).
UniqueCallIds ==
    \A i, j \in 1..N :
        (i # j /\ outputs[i].call_id = outputs[j].call_id /\ outputs[i].call_id # None)
            => outputs[i].type # outputs[j].type

\* C1 as stated: for every hand-off call/result pair with matching call_id whose
\* payload resolves to a target agent, the call, the events between and the
\* result are in the bucket of the agent current before the hand-off, and the
\* events after the result (up to the next resolved hand-off) are in the bucket
\* of the target agent.  Stated on streams with unique call_ids.
C1_AsStated ==
    (initial_agent_name # None /\ UniqueCallIds) =>
        \A i, j \in 1..N :
            OrigPair(i, j) =>
                /\ \A k \in i..j : OnlyIn(k, OrigOwnerBefore(i))
                /\ \A k \in (j + 1)..N :
                      OrigResults(j + 1, k - 1) = {} => OnlyIn(k, Target(j))

\* C1 amended: the same, for the pairs whose call is the pending one when the
\* result arrives (non-empty call_id, no other hand-off call and no other
\* output with that call_id between call and result); holds on every stream.
C1_OwnershipBeforeTransfer ==
    initial_agent_name # None =>
        \A i, j \in 1..N :
            EffPair(i, j) =>
                /\ \A k \in i..j : OnlyIn(k, EffOwnerBefore(i))
                /\ \A k \in (j + 1)..N :
                      EffResults(j + 1, k - 1) = {} => OnlyIn(k, Target(j))

\* A resolved hand-off to another agent with an event between call and result
\* and an event after the result.
C1_Witness ==
    /\ initial_agent_name # None
    /\ \E i, j \in 1..N :
          /\ EffPair(i, j)
          /\ j > i + 1
          /\ j < N
          /\ Target(j) # EffOwnerBefore(i)
          /\ OnlyIn(j, EffOwnerBefore(i))
          /\ OnlyIn(j + 1, Target(j))

\* An unmatched hand-off call: no output after it carries its call_id.
UnmatchedCall(i) ==
    /\ IsHandoffCallItem(outputs[i])
    /\ ~\E j \in (i + 1)..N : SameCallId(i, j)

\* An unmatched hand-off result: no hand-off call before it carries its call_id.
UnmatchedResult(j) ==
    /\ IsOutputItem(outputs[j])
    /\ ~\E i \in 1..(j - 1) : SameCallId(i, j)

C2_UnmatchedResultPart ==
    /\ ~seg.raised
    /\ \A j \in 1..N :
          UnmatchedResult(j) => \E a \in AGENTS : OnlyIn(j, a) /\ OwnerAfter(j, a)

\* C2 as stated: an unmatched hand-off half never transfers ownership and never
\* raises: after a hand-off call with no matching result every subsequent event
\* is attributed to the agent that issued the call; a hand-off result with no
\* preceding call of its call_id leaves the current agent unchanged and is
\* recorded under it.
C2_AsStated ==
    initial_agent_name # None =>
        /\ C2_UnmatchedResultPart
        /\ \A i \in 1..N : UnmatchedCall(i) => \A k \in (i + 1)..N : SameBucket(i, k)

\* C2 amended: after a hand-off call with no matching result every subsequent
\* event is attributed to the agent that issued the call until a later hand-off
\* call is resolved by its own result; the rest as stated.
C2_UnmatchedHalfSafety ==
    initial_agent_name # None =>
        /\ C2_UnmatchedResultPart
        /\ \A i \in 1..N :
              UnmatchedCall(i) =>
                  /\ OwnerAfter(i, EffOwnerBefore(i))
                  /\ \A k \in (i + 1)..N :
                        EffResults(i + 1, k - 1) = {} => SameBucket(i, k)

\* An unmatched call followed by an event, and an unmatched result that names
\* another agent, followed by an event.
C2_Witness ==
    /\ initial_agent_name # None
    /\ \E i \in 1..N : UnmatchedCall(i) /\ i < N /\ SameBucket(i, N)
    /\ \E j \in 1..N :
          /\ UnmatchedResult(j)
          /\ Resolves(outputs[j].output)
          /\ Target(j) # initial_agent_name
          /\ j < N

\* C3: when the item handled is a function-call output that matches the pending
\* call_id and whose payload does not resolve to a target agent, the function
\* does not raise, the current agent is unchanged, the pending call_id is
\* cleared, the item is recorded under the current agent and the loop goes on.
C3_Step ==
    (/\ initial_agent_name # None
     /\ outputs' # outputs
     /\ IsMatchingOutput(outputs'[Len(outputs')], seg.pending_handoff_call_id)
     /\ ~Resolves(outputs'[Len(outputs')].output))
    => /\ ~seg'.raised
       /\ seg'.current_agent_name = seg.current_agent_name
       /\ seg'.pending_handoff_call_id = None
       /\ seg'.segmented_history =
              AppendTo(seg.segmented_history, seg.current_agent_name, Len(outputs'))

C3_UnresolvedPayloadSafety == [][C3_Step]_vars

\* A payload that parses to a non-object has answered the pending call, and the
\* hand-off that follows it in the stream has still been segmented and resolved.
C3_Witness ==
    /\ initial_agent_name # None
    /\ ~seg.raised
    /\ \E i, j \in 1..N :
          /\ PendingPair(i, j)
          /\ outputs[j].output.form = "json_scalar"
          /\ j + 2 <= N
          /\ OnlyIn(j, initial_agent_name)
          /\ EffPair(j + 1, j + 2)
          /\ Target(j + 2) # initial_agent_name
          /\ OwnerAfter(j + 2, Target(j + 2))

\* C26: the pending hand-off is one slot.  A hand-off call puts its call_id
\* into the slot whatever the slot held; an output whose call_id is not the one
\* in the slot changes neither the current agent nor the slot; the current
\* agent changes only on an output whose call_id is the one in the slot; and
\* no step raises.
C26_Step ==
    (initial_agent_name # None /\ outputs' # outputs) =>
        LET item == outputs'[Len(outputs')]
            slot == seg.pending_handoff_call_id
        IN  /\ ~seg'.raised
            /\ (item.type = "function_call" /\ StartsWithTransferTo(item.name)) =>
                  /\ seg'.pending_handoff_call_id = item.call_id
                  /\ seg'.current_agent_name = seg.current_agent_name
            /\ (item.type = "function_call_output" /\ item.call_id # slot) =>
                  /\ seg'.pending_handoff_call_id = slot
                  /\ seg'.current_agent_name = seg.current_agent_name
            /\ seg'.current_agent_name # seg.current_agent_name =>
                  /\ item.type = "function_call_output"
                  /\ slot # None
                  /\ item.call_id = slot
                  /\ seg'.current_agent_name = item.output.assistant

C26_SinglePendingSlot == [][C26_Step]_vars

\* Two hand-off calls, then the resolvable output of the first, which
\* transferred nothing, then the output of the second, which transferred.
C26_Witness ==
    /\ N >= 4
    /\ IsHandoffCallItem(outputs[1])
    /\ IsHandoffCallItem(outputs[2])
    /\ outputs[1].call_id # outputs[2].call_id
    /\ IsOutputItem(outputs[3])
    /\ outputs[3].call_id = outputs[1].call_id
    /\ Resolves(outputs[3].output)
    /\ outputs[3].output.assistant # initial_agent_name
    /\ IsOutputItem(outputs[4])
    /\ outputs[4].call_id = outputs[2].call_id
    /\ Resolves(outputs[4].output)
    /\ outputs[4].output.assistant # initial_agent_name
    /\ \A k \in 1..4 : OnlyIn(k, initial_agent_name)
    /\ N = 4 => seg.current_agent_name = outputs[4].output.assistant

\* The positions of `outputs` that the bucket of agent a holds.
BucketPositions(a) ==
    {seg.segmented_history[a][n] : n \in DOMAIN seg.segmented_history[a]}

\* C27: the buckets partition the items read so far: every item is in exactly
\* one bucket and once in it, every bucket entry is an item read, each bucket
\* holds its items in the order of the input, and the mapping returned for the
\* list holds the items themselves (as many as the list has).
C27_Partition ==
    (initial_agent_name # None /\ ~seg.raised) =>
        /\ \A k \in 1..N :
              \E a \in DOMAIN seg.segmented_history :
                  /\ k \in BucketPositions(a)
                  /\ \A b \in DOMAIN seg.segmented_history \ {a} : k \notin BucketPositions(b)
        /\ \A a \in DOMAIN seg.segmented_history :
              /\ BucketPositions(a) \subseteq 1..N
              /\ \A m, n \in DOMAIN seg.segmented_history[a] :
                    m < n => seg.segmented_history[a][m] < seg.segmented_history[a][n]
        /\ LET returned == MapOutputsToAgents(outputs, initial_agent_name).segmented
           IN  /\ DOMAIN returned = DOMAIN seg.segmented_history
               /\ \A a \in DOMAIN returned :
                     /\ Len(returned[a]) = Len(seg.segmented_history[a])
                     /\ \A n \in DOMAIN returned[a] :
                           returned[a][n] = outputs[seg.segmented_history[a][n]]

\* At least four items were read and two agents own at least two items
\* each, the second agent's after a resolved hand-off.
C27_Witness ==
    /\ N >= 4
    /\ ~seg.raised
    /\ \E a, b \in DOMAIN seg.segmented_history :
          /\ a # b
          /\ a = initial_agent_name
          /\ b = seg.current_agent_name
          /\ Len(seg.segmented_history[a]) >= 2
          /\ Len(seg.segmented_history[b]) >= 2
          /\ \A m \in BucketPositions(a) : \A n \in BucketPositions(b) : m < n

(***************************************************************************)
(* Properties of the turn handler and the state store, checked under Spec. *)
(***************************************************************************)
\* The turn of task t got through segmentation and merge.
Merged(t) == turn[t].pc = "answered" \/ turn[t].save_failed

\* The context the turn's merge started from: the loaded one, with the ticket
\* fields the tools set during the run.
MergeInput(t) ==
    [turn[t].prior_context EXCEPT
        !.ticket_id = TicketAfterRun(turn[t].prior_context.ticket_id, turn[t].new_items)]

MergeOnce(t) ==
    TurnMerge(MergeInput(t), turn[t].segmented, turn[t].last_active_agent_name,
              turn[t].last_response_id)

\* C4: merging the same segmented output, active agent and token a second time
\* into the state the first merge produced leaves that state unchanged.
C4_MergeIdempotent ==
    \A t \in DOMAIN turn :
        Merged(t) =>
            /\ turn[t].agent_context = MergeOnce(t)
            /\ TurnMerge(MergeOnce(t), turn[t].segmented, turn[t].last_active_agent_name,
                         turn[t].last_response_id) = MergeOnce(t)

\* A merge into a non-empty history that appended an event with an identifier
\* and an event without one.
C4_Witness ==
    \E t \in DOMAIN turn :
        /\ Merged(t)
        /\ \E a \in DOMAIN turn[t].segmented :
              /\ a \in DOMAIN turn[t].prior_context.chat_history
              /\ turn[t].prior_context.chat_history[a] # <<>>
              /\ \E x, y \in Range(turn[t].segmented[a]) :
                    /\ x.id # None /\ y.id = None
                    /\ x \notin Range(turn[t].prior_context.chat_history[a])
                    /\ y \notin Range(turn[t].prior_context.chat_history[a])
                    /\ x \in Range(turn[t].agent_context.chat_history[a])
                    /\ y \in Range(turn[t].agent_context.chat_history[a])

NoDupIds(history) ==
    \A i, j \in DOMAIN history :
        (i # j /\ history[i].id # None) => history[i].id # history[j].id

HistoriesHaveNoDupIds(ctx) == \A a \in DOMAIN ctx.chat_history : NoDupIds(ctx.chat_history[a])

\* C5: no agent's history, stored or held by a turn, has two events with the
\* same id.
C5_NoDuplicateIds ==
    /\ \A c \in DOMAIN db : HistoriesHaveNoDupIds(JsonLoadsContext(db[c].context_json))
    /\ \A t \in DOMAIN turn : HistoriesHaveNoDupIds(turn[t].agent_context)

\* A turn whose output repeats an identifier that the agent's stored history
\* already held has been merged and saved.
C5_Witness ==
    \E t \in DOMAIN turn :
        /\ turn[t].pc = "answered"
        /\ \E a \in DOMAIN turn[t].segmented :
              /\ a \in DOMAIN turn[t].prior_context.chat_history
              /\ \E i, j \in DOMAIN turn[t].segmented[a] :
                    /\ i # j
                    /\ turn[t].segmented[a][i].id # None
                    /\ turn[t].segmented[a][i].id = turn[t].segmented[a][j].id
                    /\ turn[t].segmented[a][i] \in
                           Range(turn[t].prior_context.chat_history[a])
              /\ Len(db[turn[t].conversation_id].context_json.chat_history[a]) >= 3

\* C6: a turn that loads a conversation_id without a row does not fail in the
\* load and starts from empty histories, no continuation tokens and the
\* initiating agent triage_agent.
C6_LoadUnseen ==
    \A t \in DOMAIN turn :
        turn[t].loaded = "absent" =>
            /\ turn[t].load_exc = None
            /\ turn[t].pc = "running" =>
                  /\ turn[t].current_agent_name = "triage_agent"
                  /\ turn[t].agent_context.chat_history = <<>>
                  /\ turn[t].agent_context.agent_last_response_ids = <<>>
                  /\ turn[t].last_response_id = None

\* A turn loaded an unseen conversation_id while another conversation is stored.
C6_Witness ==
    \E t \in DOMAIN turn :
        /\ turn[t].pc = "running"
        /\ turn[t].loaded = "absent"
        /\ turn[t].conversation_id \notin DOMAIN db
        /\ \E c \in DOMAIN db : db[c].agent_name \in AGENTS

\* C7 as stated: the row a completed turn saved loads back, without failure, to
\* the state the turn saved.
C7_AsStated ==
    \A t \in DOMAIN turn :
        (/\ turn[t].pc = "answered"
         /\ turn[t].conversation_id \in DOMAIN db
         /\ db[turn[t].conversation_id] =
                Row(JsonDumpsContext(turn[t].agent_context),
                    turn[t].last_active_agent_name, turn[t].last_response_id))
        => LET ld == LoadStateFromDb(db, turn[t].conversation_id, FALSE)
           IN  /\ ld.exc = None
               /\ ld.context = turn[t].agent_context
               /\ ld.agent_name = turn[t].last_active_agent_name
               /\ ld.last_response_id = turn[t].last_response_id

\* C8: a turn that loads a row whose agent_name is no key of AGENTS does not
\* fail in the load and runs triage_agent with a default context, the user
\* message as only input and no continuation token.
C8_SelfHealing ==
    \A t \in DOMAIN turn :
        (turn[t].loaded = "row" /\ turn[t].loaded_agent_name \notin AGENTS) =>
            /\ turn[t].load_exc = None
            /\ turn[t].prior_context = DefaultContext
            /\ turn[t].pc = "running" =>
                  /\ turn[t].current_agent_name = "triage_agent"
                  /\ turn[t].agent_context = DefaultContext
                  /\ turn[t].last_response_id = None
                  /\ turn[t].input_with_history = <<UserInput(turn[t].user_message)>>

\* A turn loaded the row of an agent that the registry no longer has, with a
\* stored history and token.
C8_Witness ==
    \E t \in DOMAIN turn :
        /\ turn[t].pc = "running"
        /\ turn[t].loaded = "row"
        /\ turn[t].loaded_agent_name = "legacy_agent"
        /\ db[turn[t].conversation_id].context_json.chat_history # <<>>
        /\ db[turn[t].conversation_id].last_response_id # None

\* C9 as stated: a turn whose load fails goes on from the default state.
C9_AsStated ==
    \A t \in DOMAIN turn :
        turn[t].load_exc # None =>
            /\ turn[t].pc = "raised" => turn[t].error = "CancelledError"
            /\ turn[t].prior_context = DefaultContext
            /\ turn[t].current_agent_name = "triage_agent"

\* C10 as stated: a turn whose save fails still returns its answer, without
\* error.
C10_AsStated ==
    \A t \in DOMAIN turn :
        turn[t].save_failed =>
            /\ turn[t].pc = "answered"
            /\ turn[t].error = None
            /\ turn[t].answer = FinalMessage(turn[t].new_items, turn[t].last_active_agent_name)

\* C11: a turn whose runner fails, times out or is cancelled ends in failure
\* without merge or save: the store is unchanged by the step, the turn holds no
\* segmented output, and a retry loads the prior state the failed turn had.
C11_Step ==
    \A t \in DOMAIN turn :
        (/\ turn[t].pc = "running"
         /\ turn'[t].pc \in {"error", "raised"}
         /\ turn'[t].error \in RunnerExceptions)
        => /\ db' = db
           /\ turn'[t].segmented = <<>>
           /\ turn'[t].agent_context = turn[t].prior_context
           /\ turn'[t].answer = None
           /\ LoadPhase(db', turn[t].conversation_id, turn[t].user_message, FALSE)
                  = turn[t]

C11_RunnerFailureLeavesState == [][C11_Step]_vars

\* The runner was cancelled in a turn on a conversation that has a stored row
\* of a registered agent.
C11_Witness ==
    \E t \in DOMAIN turn :
        /\ turn[t].pc = "raised"
        /\ turn[t].error = "CancelledError"
        /\ turn[t].loaded = "row"
        /\ turn[t].loaded_agent_name \in AGENTS
        /\ turn[t].prior_context.chat_history # <<>>

\* The last event the runner produced in the turn of task t.
LastEvent(t) == turn[t].new_items[Len(turn[t].new_items)]

\* The text of the last event: the content of a message, the output of a tool
\* result.
LastText(t) ==
    IF LastEvent(t).kind = "message_output_item" THEN LastEvent(t).content
    ELSE LastEvent(t).output.text

\* C13 as stated: the answer of a successful turn is the text of the last event
\* and nothing else.
C13_AsStated ==
    \A t \in DOMAIN turn :
        turn[t].pc = "answered" => turn[t].answer = LastText(t)

\* C13: the answer of a successful turn is the text of the last event (message
\* content, or tool output) followed by the tag of the last active agent,
\* "<!<" name ">!>".
C13_AnswerIsLastTextAndTag ==
    \A t \in DOMAIN turn :
        turn[t].pc = "answered" =>
            /\ LastEvent(t).kind \in {"message_output_item", "tool_call_output_item"}
            /\ turn[t].answer =
                   LastText(t) \o "<!<" \o turn[t].last_active_agent_name \o ">!>"

\* A turn answered with the output of a tool (the tool short-circuit).
C13_Witness ==
    \E t \in DOMAIN turn :
        /\ turn[t].pc = "answered"
        /\ LastEvent(t).kind = "tool_call_output_item"
        /\ turn[t].answer = "ticket TICKET-1 created<!<support_ticket_agent>!>"

\* C14: a turn whose last event is neither a message nor a tool result ends
\* with the error dict (the endpoint's 500): no answer, no save.
C14_Step ==
    \A t \in DOMAIN turn :
        (/\ turn[t].pc = "running"
         /\ turn'[t].pc # "running"
         /\ turn'[t].new_items # <<>>
         /\ turn'[t].new_items[Len(turn'[t].new_items)].kind
                \notin {"message_output_item", "tool_call_output_item"})
        => /\ turn'[t].pc = "error"
           /\ turn'[t].error # None
           /\ turn'[t].answer = None
           /\ ~turn'[t].save_failed
           /\ db' = db

C14_OtherLastEventFails == [][C14_Step]_vars

\* A turn on a stored conversation failed with the ValueError of line 165: its
\* last event is a hand-off result.
C14_Witness ==
    \E t \in DOMAIN turn :
        /\ turn[t].pc = "error"
        /\ turn[t].error = "ValueError"
        /\ LastEvent(t).kind = "handoff_output_item"
        /\ turn[t].loaded = "row"
        /\ turn[t].loaded_agent_name \in AGENTS

\* The run of task t's turn produced a hand-off result whose payload names no
\* target, and ended in a message or a tool result.
UnresolvedHandoffTurn(t) ==
    /\ turn[t].new_items # <<>>
    /\ \E i \in DOMAIN turn[t].new_items :
          /\ turn[t].new_items[i].kind = "handoff_output_item"
          /\ ~Resolves(turn[t].new_items[i].output)
    /\ LastEvent(t).kind \in {"message_output_item", "tool_call_output_item"}

\* C17 as stated: a turn whose output holds an unresolved hand-off result and
\* ends in a message or tool result is segmented, merged and answered; it
\* fails for no other reason than a failing save.
C17_AsStated ==
    \A t \in DOMAIN turn :
        (UnresolvedHandoffTurn(t) /\ ~turn[t].save_failed) =>
            /\ turn[t].pc = "answered"
            /\ turn[t].error = None
            /\ turn[t].answer # None

\* C19: after the merge of a turn the active agent is the last agent the
\* runner reported, the token stored for it is the token the runner reported,
\* and the tokens of all other agents are those the turn started from.
C19_ActiveAgentAndToken ==
    \A t \in DOMAIN turn :
        Merged(t) =>
            LET before == turn[t].prior_context.agent_last_response_ids
                after  == turn[t].agent_context.agent_last_response_ids
                last   == turn[t].last_active_agent_name
            IN  /\ turn[t].agent_context.active_agent_name = last
                /\ DOMAIN after = DOMAIN before \cup {last}
                /\ after[last] = turn[t].last_response_id
                /\ \A a \in DOMAIN before \ {last} : after[a] = before[a]

\* A merged turn that started with a token of another agent than the one the
\* runner reported last, and changed the active agent.
C19_Witness ==
    \E t \in DOMAIN turn :
        /\ Merged(t)
        /\ turn[t].prior_context.active_agent_name \in AGENTS
        /\ turn[t].prior_context.active_agent_name # turn[t].last_active_agent_name
        /\ \E a \in DOMAIN turn[t].prior_context.agent_last_response_ids :
              /\ a # turn[t].last_active_agent_name
              /\ turn[t].agent_context.agent_last_response_ids[a] = "resp_1"

\* s is t with some elements left out: the elements of s occur in t in the
\* same relative order.
RECURSIVE IsSubsequence(_, _)
IsSubsequence(s, t) ==
    IF s = <<>> THEN TRUE
    ELSE IF t = <<>> THEN FALSE
    ELSE IF Head(s) = Head(t) THEN IsSubsequence(Tail(s), Tail(t))
    ELSE IsSubsequence(s, Tail(t))

\* C20: for every agent the history before the merge is a prefix of the
\* history after it, the appended events are events of the agent's segmented
\* sequence in their order there, and the history of an agent without
\* segmented sequence is unchanged.
C20_MergeAppendOnly ==
    \A t \in DOMAIN turn :
        Merged(t) =>
            LET before == turn[t].prior_context.chat_history
                after  == turn[t].agent_context.chat_history
            IN  /\ DOMAIN after = DOMAIN before \cup DOMAIN turn[t].segmented
                /\ \A a \in DOMAIN before :
                      /\ Len(after[a]) >= Len(before[a])
                      /\ SubSeq(after[a], 1, Len(before[a])) = before[a]
                      /\ a \notin DOMAIN turn[t].segmented => after[a] = before[a]
                /\ \A a \in DOMAIN turn[t].segmented :
                      LET old == IF a \in DOMAIN before THEN Len(before[a]) ELSE 0
                      IN  IsSubsequence(SubSeq(after[a], old + 1, Len(after[a])),
                                        turn[t].segmented[a])

\* A merge appended two events to a non-empty history while another agent,
\* which has a history, had no segmented sequence.
C20_Witness ==
    \E t \in DOMAIN turn :
        /\ Merged(t)
        /\ \E a \in DOMAIN turn[t].segmented \cap DOMAIN turn[t].prior_context.chat_history :
              /\ turn[t].prior_context.chat_history[a] # <<>>
              /\ Len(turn[t].agent_context.chat_history[a])
                     >= Len(turn[t].prior_context.chat_history[a]) + 2
        /\ \E b \in DOMAIN turn[t].prior_context.chat_history \ DOMAIN turn[t].segmented :
              turn[t].prior_context.chat_history[b] # <<>>

\* The number of entries of history s that equal e.
Count(e, s) == Cardinality({i \in DOMAIN s : s[i] = e})

\* C21: the merge appends an event without id exactly when no equal entry is
\* in the agent's history: afterwards the history holds the event as often as
\* before when it held it, and once when it did not.  A user message equal to
\* one the agent's history holds does not lengthen the history.
C21_IdlessDedupByValue ==
    \A t \in DOMAIN turn :
        Merged(t) =>
            \A a \in DOMAIN turn[t].segmented :
                LET before == IF a \in DOMAIN turn[t].prior_context.chat_history
                              THEN turn[t].prior_context.chat_history[a] ELSE <<>>
                    after  == turn[t].agent_context.chat_history[a]
                IN  \A i \in DOMAIN turn[t].segmented[a] :
                        LET e == turn[t].segmented[a][i]
                        IN  e.id = None =>
                                Count(e, after) =
                                    IF Count(e, before) > 0 THEN Count(e, before) ELSE 1

\* A merged turn whose user message equals one that the history of the agent
\* held, with another entry stored after it; the merge appended the turn's
\* other output only.
C21_Witness ==
    \E t \in DOMAIN turn :
        /\ Merged(t)
        /\ turn[t].current_agent_name \in DOMAIN turn[t].prior_context.chat_history
        /\ LET before == turn[t].prior_context.chat_history[turn[t].current_agent_name]
               after  == turn[t].agent_context.chat_history[turn[t].current_agent_name]
               e      == UserInput(turn[t].user_message)
           IN  /\ Count(e, before) = 1
               /\ before[Len(before)] # e
               /\ Count(e, after) = 1
               /\ Len(after) > Len(before)

\* The agent a request for conversation_id runs first: the one of the stored
\* row when the registry has it, triage_agent otherwise.
ActiveAgentOf(store, conversation_id) ==
    IF conversation_id \in DOMAIN store /\ store[conversation_id].agent_name \in AGENTS
    THEN store[conversation_id].agent_name
    ELSE "triage_agent"

\* The history the store holds for the agent that runs first.
StoredHistoryOf(store, conversation_id) ==
    IF /\ conversation_id \in DOMAIN store
       /\ store[conversation_id].agent_name \in AGENTS
       /\ store[conversation_id].agent_name
              \in DOMAIN store[conversation_id].context_json.chat_history
    THEN store[conversation_id].context_json.chat_history[store[conversation_id].agent_name]
    ELSE <<>>

\* C22: a request dispatches the runner once: the step that starts the run is
\* the step that receives the request, it runs the active agent of the stored
\* row, and the input is that agent's stored history followed by the user
\* message (the message alone without stored history).
C22_Step ==
    \A t \in DOMAIN turn :
        (turn'[t] # turn[t] /\ turn'[t].pc = "running") =>
            /\ turn[t].pc # "running"
            /\ nturns' = nturns + 1
            /\ turn'[t].current_agent_name = ActiveAgentOf(db, turn'[t].conversation_id)
            /\ turn'[t].input_with_history =
                   StoredHistoryOf(db, turn'[t].conversation_id)
                       \o <<UserInput(turn'[t].user_message)>>

C22_DispatchInput == [][C22_Step]_vars

\* A run was started for support_ticket_agent on a conversation whose row holds
\* histories of both agents: the input is support_ticket_agent's history and
\* the user message.
C22_Witness ==
    \E t \in DOMAIN turn :
        /\ turn[t].pc = "running"
        /\ turn[t].current_agent_name = "support_ticket_agent"
        /\ DOMAIN turn[t].prior_context.chat_history = AGENTS
        /\ turn[t].prior_context.chat_history["triage_agent"] # <<>>
        /\ Len(turn[t].prior_context.chat_history["support_ticket_agent"]) >= 1
        /\ Len(turn[t].input_with_history)
               = Len(turn[t].prior_context.chat_history["support_ticket_agent"]) + 1
        /\ turn[t].input_with_history[Len(turn[t].input_with_history)]
               = UserInput(turn[t].user_message)

\* The continuation token the store holds for the agent that runs first,
\* None when it holds none.
StoredTokenOf(store, conversation_id) ==
    IF /\ conversation_id \in DOMAIN store
       /\ store[conversation_id].agent_name \in AGENTS
       /\ store[conversation_id].agent_name
              \in DOMAIN store[conversation_id].context_json.agent_last_response_ids
    THEN FromJson(store[conversation_id].context_json.agent_last_response_ids[
                      store[conversation_id].agent_name])
    ELSE None

\* C23 as stated: the runner is invoked with the continuation token stored for
\* the active agent, or with none when none is stored.
C23_AsStated ==
    \A t \in DOMAIN turn :
        turn[t].pc = "running" =>
            turn[t].previous_response_id = StoredTokenOf(db, turn[t].conversation_id)

\* Part p occurs in the sequence of parts ps, and part q before it.
EnteredBefore(ps, q, p) ==
    \E i, j \in DOMAIN ps : i < j /\ ps[i] = q /\ ps[j] = p

IsPrefix(s, t) == Len(s) <= Len(t) /\ SubSeq(t, 1, Len(s)) = s

C30_Step ==
    \A t \in DOMAIN turn :
        (/\ turn[t].pc = "running"
         /\ turn'[t].pc # "running"
         /\ turn'[t].new_items # <<>>
         /\ turn'[t].new_items[Len(turn'[t].new_items)].kind
                \notin {"message_output_item", "tool_call_output_item"})
        => LET again == LoadPhase(db', turn[t].conversation_id, turn[t].user_message, FALSE)
           IN  /\ db' = db
               /\ again.loaded = turn[t].loaded
               /\ again.loaded_agent_name = turn[t].loaded_agent_name
               /\ again.prior_context = turn[t].prior_context
               /\ again.current_agent_name = turn[t].current_agent_name
               /\ again.last_response_id = turn[t].last_response_id
               /\ again.input_with_history = turn[t].input_with_history
               /\ turn[t].loaded = "absent" => turn[t].conversation_id \notin DOMAIN db'

C30_FailedTurnLeavesRecord == [][C30_Step]_vars

\* A turn on a stored conversation failed on a run that ended in a hand-off
\* call, with another last agent and another token than the row holds; the
\* row holds neither, and the hand-off call is in none of its histories.
C30_Witness ==
    \E t \in DOMAIN turn :
        /\ turn[t].pc = "error"
        /\ turn[t].loaded = "row"
        /\ turn[t].loaded_agent_name \in AGENTS
        /\ turn[t].new_items # <<>>
        /\ LastEvent(t).kind = "handoff_call_item"
        /\ turn[t].last_active_agent_name # db[turn[t].conversation_id].agent_name
        /\ turn[t].last_response_id # db[turn[t].conversation_id].last_response_id
        /\ db[turn[t].conversation_id].agent_name = turn[t].loaded_agent_name
        /\ \A a \in DOMAIN db[turn[t].conversation_id].context_json.chat_history :
              LastEvent(t) \notin Range(db[turn[t].conversation_id].context_json.chat_history[a])

\* The run of task t's turn ended in the result of its hand-off call, and the
\* result names a target.
ResolvedHandoffLast(t) ==
    /\ turn[t].pc \notin {"idle", "running"}
    /\ Len(turn[t].new_items) >= 2
    /\ IsHandoffCallItem(turn[t].new_items[Len(turn[t].new_items) - 1])
    /\ LastEvent(t).kind = "handoff_output_item"
    /\ LastEvent(t).call_id = turn[t].new_items[Len(turn[t].new_items) - 1].call_id
    /\ Resolves(LastEvent(t).output)

HandoffTarget(t) == LastEvent(t).output.assistant

RowOf(tr) ==
    Row(JsonDumpsContext(tr.agent_context), tr.last_active_agent_name, tr.last_response_id)

\* The events the merge of turn record tr appended to the history of agent a.
Appended(tr, a) ==
    Range(HistoryOf(tr.agent_context.chat_history, a))
        \ Range(HistoryOf(tr.prior_context.chat_history, a))

\* Turn records tr and ur are of the same conversation and started from the
\* same loaded state.
SamePrior(tr, ur) ==
    /\ tr.conversation_id = ur.conversation_id
    /\ tr.loaded = ur.loaded
    /\ tr.prior_context = ur.prior_context

\* C15: when a turn saves, the stored record becomes exactly the state of that
\* turn, whatever another turn of the same conversation has saved since both
\* loaded: the events the other turn appended (and this turn did not append
\* itself) are not in the record.
C15_Step ==
    \A t \in DOMAIN turn :
        (turn[t].pc = "running" /\ turn'[t].pc = "answered") =>
            /\ db'[turn[t].conversation_id] = RowOf(turn'[t])
            /\ \A u \in DOMAIN turn \ {t} :
                  (turn[u].pc = "answered" /\ SamePrior(turn[u], turn[t])) =>
                      \A a \in DOMAIN turn[u].agent_context.chat_history :
                          \A e \in Appended(turn[u], a) \ Appended(turn'[t], a) :
                              e \notin Range(HistoryOf(
                                  db'[turn[t].conversation_id].context_json.chat_history, a))

C15_LastSaveWins == [][C15_Step]_vars

\* A lost update: two answered turns of one conversation started from the same
\* loaded state; the record is the state of task_2's turn, and an event, the
\* active agent and the token of task_1's turn are not in it.
C15_Witness ==
    /\ turn["task_1"].pc = "answered"
    /\ turn["task_2"].pc = "answered"
    /\ SamePrior(turn["task_1"], turn["task_2"])
    /\ db[turn["task_2"].conversation_id] = RowOf(turn["task_2"])
    /\ db[turn["task_2"].conversation_id] # RowOf(turn["task_1"])
    /\ turn["task_1"].last_active_agent_name # turn["task_2"].last_active_agent_name
    /\ turn["task_1"].last_response_id # turn["task_2"].last_response_id
    /\ \E a \in DOMAIN turn["task_1"].agent_context.chat_history :
          \E e \in Appended(turn["task_1"], a) :
              /\ e.id # None
              /\ e \notin Range(HistoryOf(
                     db[turn["task_2"].conversation_id].context_json.chat_history, a))

\* The store without the rows of other conversations than conversation_id.
OnlyRowOf(store, conversation_id) ==
    [c \in DOMAIN store \cap {conversation_id} |-> store[c]]

\* C16: a step of a turn of conversation A leaves the rows of every other
\* conversation as they are (none created, changed or removed); what the turn
\* loads does not depend on the rows of other conversations; and every event
\* in the turn's state is of A's loaded row or of the turn's own run.
C16_Step ==
    \A t \in DOMAIN turn :
        turn'[t] # turn[t] =>
            /\ DOMAIN db' \ {turn'[t].conversation_id}
                   = DOMAIN db \ {turn'[t].conversation_id}
            /\ \A c \in DOMAIN db \ {turn'[t].conversation_id} : db'[c] = db[c]
            /\ turn'[t].pc = "running" =>
                  /\ turn'[t] = LoadPhase(OnlyRowOf(db, turn'[t].conversation_id),
                                          turn'[t].conversation_id,
                                          turn'[t].user_message, FALSE)
                  /\ turn'[t].prior_context \in
                         {DefaultContext} \cup
                         {JsonLoadsContext(db[c].context_json) :
                              c \in DOMAIN db \cap {turn'[t].conversation_id}}
            /\ \A a \in DOMAIN turn'[t].agent_context.chat_history :
                  Range(turn'[t].agent_context.chat_history[a]) \subseteq
                      Range(HistoryOf(turn'[t].prior_context.chat_history, a))
                          \cup Range(turn'[t].current_turn_history)

C16_ConversationsIndependent == [][C16_Step]_vars

\* Two turns of different conversations with different messages and outputs
\* are answered; each row holds the output of its own turn only.
C16_Witness ==
    /\ turn["task_1"].pc = "answered"
    /\ turn["task_2"].pc = "answered"
    /\ turn["task_1"].conversation_id = "conv_1"
    /\ turn["task_2"].conversation_id = "conv_2"
    /\ turn["task_1"].new_items = <<Msg1>>
    /\ turn["task_2"].new_items = <<HCall, HOut, Msg2>>
    /\ db["conv_1"] = RowOf(turn["task_1"])
    /\ db["conv_2"] = RowOf(turn["task_2"])
    /\ \A a \in DOMAIN db["conv_1"].context_json.chat_history :
          Msg2 \notin Range(db["conv_1"].context_json.chat_history[a])
    /\ \A a \in DOMAIN db["conv_2"].context_json.chat_history :
          Msg1 \notin Range(db["conv_2"].context_json.chat_history[a])

\* C25: the store changes only in the step that ends a turn with its answer,
\* and then by one upsert of the turn's final state into the row of its
\* conversation; every other step of a turn (its load, its failure) leaves
\* the store as it is, so that a task that loads while another task's turn is
\* running on the record that turn loaded gets the same state as that turn.
C25_Step ==
    \A t \in DOMAIN turn :
        turn'[t] # turn[t] =>
            /\ turn'[t].pc = "answered" =>
                  /\ DOMAIN db' = DOMAIN db \cup {turn'[t].conversation_id}
                  /\ db'[turn'[t].conversation_id] = RowOf(turn'[t])
                  /\ \A c \in DOMAIN db \ {turn'[t].conversation_id} : db'[c] = db[c]
            /\ turn'[t].pc # "answered" => db' = db
            /\ turn'[t].pc = "running" =>
                  \A u \in DOMAIN turn \ {t} :
                      (/\ turn[u].pc = "running"
                       /\ turn[u].conversation_id = turn'[t].conversation_id
                       /\ LoadPhase(db, turn[u].conversation_id, turn[u].user_message, FALSE)
                              = turn[u])
                      => SamePrior(turn'[t], turn[u])

C25_SingleUpsertAtTurnEnd == [][C25_Step]_vars

\* task_1's turn has saved its state; task_2's turn, still running, loaded the
\* record of the same conversation as it was before task_1's turn.
C25_Witness ==
    /\ turn["task_1"].pc = "answered"
    /\ turn["task_2"].pc = "running"
    /\ SamePrior(turn["task_1"], turn["task_2"])
    /\ turn["task_1"].agent_context # turn["task_1"].prior_context
    /\ db[turn["task_1"].conversation_id] = RowOf(turn["task_1"])
    /\ turn["task_2"].agent_context = turn["task_2"].prior_context

\* C29: in every row of the store, the agent_name column is the active agent
\* of the serialized state, and the last_response_id column is the token the
\* serialized state holds for that agent.
C29_RowColumnsConsistent ==
    \A c \in DOMAIN db :
        LET state == JsonLoadsContext(db[c].context_json)
        IN  /\ db[c].agent_name = state.active_agent_name
            /\ db[c].agent_name \in DOMAIN state.agent_last_response_ids
            /\ db[c].last_response_id = state.agent_last_response_ids[db[c].agent_name]

\* Two turns that started from the same loaded state saved one after the
\* other with different agents and tokens; the row is the one of the turn that
\* saved last, in its columns and in its serialized state.
C29_Witness ==
    \E t, u \in DOMAIN turn :
        /\ t # u
        /\ turn[t].pc = "answered"
        /\ turn[u].pc = "answered"
        /\ SamePrior(turn[t], turn[u])
        /\ turn[t].last_active_agent_name # turn[u].last_active_agent_name
        /\ turn[t].last_response_id # turn[u].last_response_id
        /\ db[turn[u].conversation_id].agent_name = turn[u].last_active_agent_name
        /\ db[turn[u].conversation_id].last_response_id = turn[u].last_response_id
        /\ JsonLoadsContext(db[turn[u].conversation_id].context_json).active_agent_name
               = turn[u].last_active_agent_name
        /\ turn[t].last_active_agent_name
               \notin DOMAIN db[turn[u].conversation_id].context_json.agent_last_response_ids

(***************************************************************************)
(* Properties of the endpoints, checked under EntrySpec.                   *)
(***************************************************************************)
\* C12 as stated: on every entry point a request whose user message is missing
\* or empty is rejected with a 400 before the load; the runner is not invoked.
C12_AsStated ==
    \A t \in DOMAIN turn :
        (turn[t].entry \in EntryPoints /\ ~Truthy(turn[t].user_message)) =>
            /\ turn[t].pc = "rejected"
            /\ turn[t].error = "HTTP 400"
            /\ turn[t].loaded = None
            /\ turn[t].new_items = <<>>

(***************************************************************************)
(* Properties of the client-held-context endpoint, checked under           *)
(* LegacySpec.                                                             *)
(***************************************************************************)
\* C18 as stated: every request with a context of chat_history H and a user
\* message m, whose run does not fail, gets a response whose chat_history is
\* longer than H, holds every item of H and holds {role: user, content: m}.
C18_AsStated ==
    (legacy.pc \in {"responded", "raised"} /\ legacy.error # "Exception") =>
        /\ legacy.pc = "responded"
        /\ Len(legacy.response_history) > Len(legacy.request_history)
        /\ Range(legacy.request_history) \subseteq Range(legacy.response_history)
        /\ DictEntry("user", legacy.message) \in Range(legacy.response_history)

====
